---- MODULE Spec2Model ----
(***************************************************************************)
(* The control channel, command-mode gate and video ingest of the Tello    *)
(* controller, as implemented by src/tools/legacy_web_ui.py (the threaded  *)
(* web UI) and src/tello_ui.py (the Tkinter UI), and the DroneClient of    *)
(* src/tello_controller/drone.py, which the cockpit program drives from   *)
(* its one thread.                                                         *)
(*                                                                         *)
(* Threads of the web UI: one HTTP handler thread per request in flight    *)
(* (ThreadingHTTPServer), one receiver thread per successful start(), one  *)
(* capture thread per spawn in VideoStreamer.start().  Each step below is  *)
(* one atomic piece of a handler; a step ends where another thread's       *)
(* reads or writes of the shared fields can make a difference.             *)
(*                                                                         *)
(* A log line is modelled as <<kind, text>>: the message without the       *)
(* "[HH:MM:SS] " prefix that append_log puts in front of it.               *)
(***************************************************************************)
EXTENDS Integers, Sequences, FiniteSets

\* ------------------------------------------------------------ bounds
\* External events of a run: requests taken up, datagrams received from the
\* drone, frames encoded from the video source.  An initial state that
\* stands for a program already into its run says how many it counts for.
MaxEvents == 2

\* The "from" of a first GET /api/logs lies in -MaxFrom..MaxFrom.
MaxFrom == 3

\* Calls of DroneClient methods in a run.
MaxOps == 3

\* ------------------------------------------------------------ inputs
Handlers == {"h1", "h2"}            \* HTTP handler threads in flight
Ui == "ui"                          \* the Tk main loop, which runs the callbacks
Threads == Handlers \cup {Ui}
Keywords == {"takeoff"}             \* the Tk buttons of _send_simple
Commands == {"command", "takeoff", ""}  \* POST /api/command payloads
Directions == {"left", "up"}        \* POST /api/move payloads
ValidDirections == {"left", "right", "forward", "back"}
Replies == {"ok", "error"}          \* datagrams the drone answers with
None == 0                           \* Python's None for a handle

\* A request creates at most one socket and spawns at most one capture
\* thread; the initial states start with at most one socket and two capture
\* threads: the ids never run out.
SockIds == 1..(MaxEvents + 1)
CapIds == 1..(MaxEvents + 2)

VARIABLES
    impl,        \* which program runs: "web" (legacy_web_ui), "tk" (tello_ui)
                 \* or "cockpit" (tello_controller)
    cv2,         \* whether the import of cv2 succeeded (cv2 is not None)
    sock,        \* TelloController.sock: None or a socket id
    running,     \* TelloController.running
    chanLock,    \* holder of TelloController.lock, or "free"
    bound,       \* the sockets currently open and bound to LOCAL_PORT
    nsock,       \* sockets created so far (the next id is nsock + 1)
    rpc,         \* receiver thread i: "off", "loop", "rlog", "done"
    rdg,         \* receiver thread i: the datagram it read and has not logged
    mode,        \* AppState._command_mode / TelloApp.command_mode
    vrunning,    \* VideoStreamer.running
    streamEnabled, \* VideoStreamer.stream_enabled
    latestFrame, \* VideoStreamer.latest_frame: None or the number of the encode
    nframes,     \* successful encodes so far
    ncap,        \* capture threads spawned so far
    cpc,         \* capture thread j: "off", then where it is in _capture_loop
                 \* ("open", "opening", "failed", "failed2", "loop", "read",
                 \* "write"), then "done" (ended without a capture handle)
                 \* or "released" (ended after cap.release())
    cbuf,        \* capture thread j: the number of the encode whose buffer it
                 \* has and has not yet stored, or None
    log,         \* log_lines (the Tk log_queue) from the first line after
                 \* the start-up lines (wifi_config.json, "Web UI available")
    wire,        \* the datagrams handed to the transport, in order, each with
                 \* the command-mode flag at that moment
    th,          \* handler thread t: [pc, op, cmd, res]; res is the outcome
                 \* of its last request
    nev,         \* external events counted against MaxEvents: those since the
                 \* initial state and what the initial state counts for the
                 \* run before it
    arrived,     \* the datagrams received from the drone, in order of arrival
    nextIndex,   \* the log poller: the "from" of its next GET /api/logs
    delivered,   \* the log poller: the lines it has received, in order
    debug,       \* DroneClient.debug
    drone,       \* DroneClient.drone: None or the Tello object
    frame_reader, \* DroneClient.frame_reader: None or the frame reader
    status,      \* DroneClient.status
    battery,     \* DroneClient.battery: None or a percentage
    dpc,         \* where the cockpit thread is in a DroneClient method:
                 \* "idle" (in none), or the statement of connect() it is
                 \* about to run
    dop,         \* the DroneClient method called last, "none" before the first
    dcalls,      \* what that call has asked of the Tello object and of the
                 \* frame reader, in order
    raised,      \* an exception has left a DroneClient method
    nops         \* DroneClient methods called so far

env == <<impl, cv2>>
chanVars == <<sock, running, chanLock, bound, nsock>>
rcvVars == <<rpc, rdg>>
vidVars == <<vrunning, streamEnabled, latestFrame, nframes, ncap, cpc, cbuf>>
poller == <<nextIndex, delivered>>
client == <<debug, drone, frame_reader, status, battery>>
droneVars == <<client, dpc, dop, dcalls, raised, nops>>
webVars ==
    <<env, poller, arrived, chanVars, rcvVars, mode, vidVars, log, wire, th,
      nev>>
vars == <<webVars, droneVars>>

\* ------------------------------------------------------------ log lines
Line(kind, text) == <<kind, text>>
LReady == Line("info", "UDP socket ready on port 9000.")
LClosed == Line("info", "Socket closed.")
LSent(c) == Line(">>>", c)
LRecv(d) == Line("<<<", d)
LSendFailed == Line("Send failed", "")
LEngaged == Line("info", "Command mode engaged.")
LEngageFailed == Line("info", "Failed to engage command mode.")
LVideoBeforeMode == Line("info", "Video requested before command mode.")
LStreamonFailed == Line("info", "Failed to send streamon command.")
LStreamEnabled == Line("info", "Drone video stream enabled.")
LConnecting == Line("info", "Connecting to Tello video feed...")
LUnableOpen == Line("info", "Unable to open the video stream. Check OpenCV/FFmpeg support.")

\* append_log: with log_lock: log_lines.append(line).  The lock is taken and
\* given back within the step, so the step waits while another thread is
\* inside append_log with the lock (InAppendLog below).
append_log(message) ==
    /\ \A u \in Threads : th[u].pc \notin {"start_app", "stop_app"}
    /\ log' = Append(log, message)

\* f"{direction} {MOVE_DISTANCE_CM}" with MOVE_DISTANCE_CM = 50
MoveCommand(d) ==
    IF d = "left" THEN "left 50"
    ELSE IF d = "right" THEN "right 50"
    ELSE IF d = "forward" THEN "forward 50"
    ELSE "back 50"

LOpenCVMissing == Line("info", "OpenCV not installed. Video disabled.")
LHomeWifi == Line("wifi", "home")
LHomeError == Line("Home Wi-Fi connect error", "")

\* ------------------------------------------------------------ threads
Idle == [pc |-> "idle", op |-> "none", cmd |-> "", res |-> "none"]

At(t, p) == th[t].pc = p
Goto(t, p) == th' = [th EXCEPT ![t].pc = p]
Done(r) == [Idle EXCEPT !.res = r]
Finish(t, r) == th' = [th EXCEPT ![t] = Done(r)]

\* DroneClient's fields as the dataclass declares them (lines 18-21), with no
\* method called.
ClientDefaults ==
    /\ drone = None
    /\ frame_reader = None
    /\ status = "Not connected."
    /\ battery = None
    /\ dpc = "idle"
    /\ dop = "none"
    /\ dcalls = <<>>
    /\ raised = FALSE
    /\ nops = 0

\* The web and the Tk program construct no DroneClient.
NoClient ==
    /\ debug = FALSE
    /\ ClientDefaults

\* The program as constructed: controller = TelloController(), state =
\* AppState(), video_streamer = VideoStreamer(controller), log_lines = [].
Fresh ==
    /\ impl = "web"
    /\ NoClient
    /\ cv2 \in BOOLEAN
    /\ sock = None
    /\ running = FALSE
    /\ chanLock = "free"
    /\ bound = {}
    /\ nsock = 0
    /\ rpc = [i \in SockIds |-> "off"]
    /\ rdg = [i \in SockIds |-> ""]
    /\ mode = FALSE
    /\ vrunning = FALSE
    /\ streamEnabled = FALSE
    /\ latestFrame = None
    /\ nframes = 0
    /\ ncap = 0
    /\ cpc = [j \in CapIds |-> "off"]
    /\ cbuf = [j \in CapIds |-> None]
    /\ log = <<>>
    /\ wire = <<>>
    /\ th = [t \in Threads |-> Idle]
    /\ arrived = <<>>
    /\ nextIndex = 0
    /\ delivered = <<>>
    /\ nev = 0

\* The program after its first request, a POST /api/command "command" that
\* went through: the channel is Listening with its receiver in the loop, the
\* gate is engaged.  It is the state Fresh reaches by HandleCommand,
\* EnsureCheck, StartBody, StartLogEnter, StartLog, SendTo, SendLog,
\* EnsureSet; n is what the run up to here counts against MaxEvents.
EngagedAt(n) ==
    /\ impl = "web"
    /\ NoClient
    /\ cv2 = TRUE
    /\ sock = 1
    /\ running = TRUE
    /\ chanLock = "free"
    /\ bound = {1}
    /\ nsock = 1
    /\ rpc = [i \in SockIds |-> IF i = 1 THEN "loop" ELSE "off"]
    /\ rdg = [i \in SockIds |-> ""]
    /\ mode = TRUE
    /\ vrunning = FALSE
    /\ streamEnabled = FALSE
    /\ latestFrame = None
    /\ nframes = 0
    /\ ncap = 0
    /\ cpc = [j \in CapIds |-> "off"]
    /\ cbuf = [j \in CapIds |-> None]
    /\ log = <<LReady, LSent("command"), LEngaged>>
    /\ wire = <<[cmd |-> "command", mode |-> FALSE]>>
    /\ th = [t \in Threads |->
               IF t = "h1" THEN Done("engaged") ELSE Idle]
    /\ arrived = <<>>
    /\ nextIndex = 0
    /\ delivered = <<>>
    /\ nev = n

Engaged == EngagedAt(1)

\* The engaged program after POST /api/video/start answered "Video stream
\* starting.": streamon went out and k capture threads are spawned, all at
\* position c, with f frames read and stored so far.  With k = 1 and
\* c = "open" it is the state Engaged reaches by HandleVideoStart,
\* VideoStartCheck, VideoStartEnabled, StartBody, SendTo, SendLog,
\* VideoStartEnable, VideoStartRunning, VideoStartSpawn; with c = "loop" the
\* capture thread has gone on by CaptureConnect and CaptureOpen, and with
\* f = 1 by CaptureLoop, CaptureRead and CaptureWrite; with c = "done" it
\* has failed to open the source instead and has ended by CaptureGiveUp.
\* With k = 2 it is the
\* state after two such requests that overlapped: the second found
\* stream_enabled set by the first and running not yet set, and spawned a
\* capture thread as well.
VideoAt(k, c, f, n) ==
    /\ impl = "web"
    /\ NoClient
    /\ cv2 = TRUE
    /\ sock = 1
    /\ running = TRUE
    /\ chanLock = "free"
    /\ bound = {1}
    /\ nsock = 1
    /\ rpc = [i \in SockIds |-> IF i = 1 THEN "loop" ELSE "off"]
    /\ rdg = [i \in SockIds |-> ""]
    /\ mode = TRUE
    /\ vrunning = (c # "done")
    /\ streamEnabled = (c # "done")
    /\ latestFrame = IF f = 0 THEN None ELSE f
    /\ nframes = f
    /\ ncap = k
    /\ cpc = [j \in CapIds |-> IF j <= k THEN c ELSE "off"]
    /\ cbuf = [j \in CapIds |-> None]
    /\ log = <<LReady, LSent("command"), LEngaged, LSent("streamon"),
               LStreamEnabled>>
             \o [j \in 1..(IF c = "open" THEN 0 ELSE k) |-> LConnecting]
             \o [j \in 1..(IF c = "done" THEN k ELSE 0) |-> LUnableOpen]
    /\ wire = <<[cmd |-> "command", mode |-> FALSE],
                [cmd |-> "streamon", mode |-> TRUE]>>
    /\ th = [t \in Threads |->
               IF t = "h1" \/ (t = "h2" /\ k = 2) THEN Done("starting")
               ELSE Idle]
    /\ arrived = <<>>
    /\ nextIndex = 0
    /\ delivered = <<>>
    /\ nev = n

GaveUp == VideoAt(1, "done", 0, 1)

Streaming == VideoAt(1, "loop", 1, 1)

Doubled == VideoAt(2, "loop", 0, 0)

\* The engaged program after a session reset and a POST /api/command
\* "command" that followed it within the receive timeout: stop() closed
\* socket 1 while receiver thread 1 was inside recvfrom, start() bound
\* socket 2 and spawned receiver thread 2 before that recvfrom returned, and
\* the call has yet to return.  It is the state Engaged reaches by
\* HandleWifiHome, VideoStop, VideoStopEnabled, StopBody, StopLogEnter,
\* StopLog, ResetMode, HomeWifi, HandleCommand, EnsureCheck, StartBody,
\* StartLogEnter, StartLog, SendTo, SendLog, EnsureSet.
Rebound ==
    /\ impl = "web"
    /\ NoClient
    /\ cv2 = TRUE
    /\ sock = 2
    /\ running = TRUE
    /\ chanLock = "free"
    /\ bound = {2}
    /\ nsock = 2
    /\ rpc = [i \in SockIds |-> IF i <= 2 THEN "loop" ELSE "off"]
    /\ rdg = [i \in SockIds |-> ""]
    /\ mode = TRUE
    /\ vrunning = FALSE
    /\ streamEnabled = FALSE
    /\ latestFrame = None
    /\ nframes = 0
    /\ ncap = 0
    /\ cpc = [j \in CapIds |-> "off"]
    /\ cbuf = [j \in CapIds |-> None]
    /\ log = <<LReady, LSent("command"), LEngaged, LClosed, LHomeWifi,
               LReady, LSent("command"), LEngaged>>
    /\ wire = <<[cmd |-> "command", mode |-> FALSE],
                [cmd |-> "command", mode |-> FALSE]>>
    /\ th = [t \in Threads |->
               IF t = "h1" THEN Done("engaged") ELSE Idle]
    /\ arrived = <<>>
    /\ nextIndex = 0
    /\ delivered = <<>>
    /\ nev = 0

\* The Tk program as constructed: TelloApp.__init__ makes the controller and
\* sets command_mode = False; it has no video ingest.
TkFresh ==
    /\ impl = "tk"
    /\ NoClient
    /\ cv2 = FALSE
    /\ sock = None
    /\ running = FALSE
    /\ chanLock = "free"
    /\ bound = {}
    /\ nsock = 0
    /\ rpc = [i \in SockIds |-> "off"]
    /\ rdg = [i \in SockIds |-> ""]
    /\ mode = FALSE
    /\ vrunning = FALSE
    /\ streamEnabled = FALSE
    /\ latestFrame = None
    /\ nframes = 0
    /\ ncap = 0
    /\ cpc = [j \in CapIds |-> "off"]
    /\ cbuf = [j \in CapIds |-> None]
    /\ log = <<>>
    /\ wire = <<>>
    /\ th = [t \in Threads |-> Idle]
    /\ arrived = <<>>
    /\ nextIndex = 0
    /\ delivered = <<>>
    /\ nev = 0

\* The web program as constructed and at three later points of a run, and the
\* Tk program as constructed.
Init == Fresh \/ Engaged \/ GaveUp \/ Streaming \/ TkFresh

\* The web program as engaged with all of MaxEvents still to come: the runs
\* in which two requests overlap.
InitDeep == EngagedAt(0)

\* The web program as engaged with all of MaxEvents still to come, and the
\* program with two receiver threads: the runs in which two receiver loops
\* overlap.
InitRebound == EngagedAt(0) \/ Rebound

\* The web program as constructed, engaged and streaming.
InitLogs == Fresh \/ Engaged \/ Streaming

\* The web program as engaged with all of MaxEvents still to come, and the
\* program streaming with two capture threads: the runs in which two capture
\* loops overlap.
InitDoubled == EngagedAt(0) \/ Doubled

\* ------------------------------------------------------------ send_command
\* Where send_command's caller goes on with its result v: "true", "false",
\* or "raised" (an exception leaves send_command).
AfterSend(r, v) ==
    IF r.op = "video_start" THEN
        \* VideoStreamer.start: if not self.controller.send_command("streamon")
        IF v = "true" THEN [r EXCEPT !.pc = "vs_enable"]
        ELSE IF v = "false" THEN [r EXCEPT !.pc = "vs_fail"]
        ELSE Done("raised")
    ELSE IF r.op = "tk_enter" THEN
        \* TelloApp.enter_command_mode: if self.controller.send_command("command")
        IF v = "true" THEN [r EXCEPT !.pc = "tk_set"]
        ELSE IF v = "false" THEN Done("notengaged")
        ELSE Done("raised")
    ELSE IF r.op = "wifi_home" THEN
        \* VideoStreamer.stop: try: send_command("streamoff") finally: ...
        [r EXCEPT !.pc = IF v = "raised" THEN "vstop_exc" ELSE "vstop_fin"]
    ELSE IF r.cmd = "command" THEN
        \* ensure_command_mode: if controller.send_command("command")
        IF v = "true" THEN [r EXCEPT !.pc = "ens_set"]
        ELSE IF v = "false" THEN [r EXCEPT !.pc = "ens_fail"]
        ELSE Done("raised")
    ELSE
        \* _handle_command / _handle_move / _send_simple / _send_move: the
        \* response follows the result
        Done(IF v = "true" THEN "sent"
             ELSE IF v = "false" THEN "sendfail" ELSE "raised")

SendReturn(t, v) == th' = [th EXCEPT ![t] = AfterSend(th[t], v)]

\* start() without its "if self.sock: return": every call creates and binds.
StartBodyNoCheck(t) ==
    /\ impl = "web"
    /\ At(t, "start")
    /\ chanLock = "free"
    /\ \/ /\ nsock < MaxEvents + 1
          /\ nsock' = nsock + 1
          /\ sock' = nsock + 1
          /\ bound' = bound \cup {nsock + 1}
          /\ running' = TRUE
          /\ rpc' = [rpc EXCEPT ![nsock + 1] = "loop"]
          /\ chanLock' = t
          /\ Goto(t, "start_log")
       \/ /\ SendReturn(t, "raised")
          /\ UNCHANGED <<chanVars, rpc>>
    /\ UNCHANGED <<droneVars, env, poller, arrived, rdg, mode, vidVars, log, wire, nev>>

\* start() without its "self.running = True".
StartBodyNotRunning(t) ==
    /\ impl = "web"
    /\ At(t, "start")
    /\ chanLock = "free"
    /\ IF sock # None
       THEN /\ Goto(t, "sendto")
            /\ UNCHANGED <<chanVars, rpc>>
       ELSE \/ /\ nsock' = nsock + 1
               /\ sock' = nsock + 1
               /\ bound' = bound \cup {nsock + 1}
               /\ UNCHANGED running
               /\ rpc' = [rpc EXCEPT ![nsock + 1] = "loop"]
               /\ chanLock' = t
               /\ Goto(t, "start_log")
            \/ /\ SendReturn(t, "raised")
               /\ UNCHANGED <<chanVars, rpc>>
    /\ UNCHANGED <<droneVars, env, poller, arrived, rdg, mode, vidVars, log, wire, nev>>

\* TelloController.start, up to the log line: under self.lock, return when a
\* socket is there; else create a socket and bind it (bind raises OSError when
\* it fails: the lock is released and the exception leaves start and, start
\* being outside send_command's try, leaves send_command too), store it, set
\* running and spawn the receiver thread.
StartBody(t) ==
    /\ impl = "web"
    /\ At(t, "start")
    /\ chanLock = "free"
    /\ IF sock # None
       THEN /\ Goto(t, "sendto")
            /\ UNCHANGED <<chanVars, rpc>>
       ELSE \/ /\ nsock' = nsock + 1
               /\ sock' = nsock + 1
               /\ bound' = bound \cup {nsock + 1}
               /\ running' = TRUE
               /\ rpc' = [rpc EXCEPT ![nsock + 1] = "loop"]
               /\ chanLock' = t
               /\ Goto(t, "start_log")
            \/ /\ SendReturn(t, "raised")
               /\ UNCHANGED <<chanVars, rpc>>
    /\ UNCHANGED <<droneVars, env, poller, arrived, rdg, mode, vidVars, log, wire, nev>>

\* TelloController.start, line 94: append_log is called with self.lock still
\* held and takes log_lock: the thread now holds both.
StartLogEnter(t) ==
    /\ At(t, "start_log")
    /\ Goto(t, "start_app")
    /\ UNCHANGED <<droneVars, env, poller, arrived, chanVars, rcvVars, mode, vidVars, log,
                   wire, nev>>

\* TelloController.start that returns without giving self.lock back.
StartLogKeepsLock(t) ==
    /\ At(t, "start_app")
    /\ log' = Append(log, LReady)
    /\ Goto(t, "sendto")
    /\ UNCHANGED <<droneVars, env, poller, arrived, chanVars, rcvVars, mode, vidVars, wire,
                   nev>>

\* TelloController.start, the end: the line is appended, log_lock is given
\* back, then self.lock.
StartLog(t) ==
    /\ At(t, "start_app")
    /\ log' = Append(log, LReady)
    /\ chanLock' = "free"
    /\ Goto(t, "sendto")
    /\ UNCHANGED <<droneVars, env, poller, arrived, sock, running, bound, nsock, rcvVars,
                   mode, vidVars, wire, nev>>

\* send_command whose datagram overtakes the ones handed over before it.
SendToFront(t) ==
    /\ At(t, "sendto")
    /\ IF sock = None
       THEN /\ SendReturn(t, "raised")
            /\ UNCHANGED wire
       ELSE \/ /\ wire' = <<[cmd |-> th[t].cmd, mode |-> mode]>> \o wire
               /\ Goto(t, "send_log")
            \/ /\ Goto(t, "send_fail")
               /\ UNCHANGED wire
    /\ UNCHANGED <<droneVars, env, poller, arrived, chanVars, rcvVars, mode, vidVars, log,
                   nev>>

\* send_command after start(): assert self.sock is not None (an AssertionError
\* is not an OSError and leaves send_command), then sendto, which hands the
\* datagram to the transport or raises OSError.
SendTo(t) ==
    /\ At(t, "sendto")
    /\ IF sock = None
       THEN /\ SendReturn(t, "raised")
            /\ UNCHANGED wire
       ELSE \/ /\ wire' = Append(wire, [cmd |-> th[t].cmd, mode |-> mode])
               /\ Goto(t, "send_log")
            \/ /\ Goto(t, "send_fail")
               /\ UNCHANGED wire
    /\ UNCHANGED <<droneVars, env, poller, arrived, chanVars, rcvVars, mode, vidVars, log,
                   nev>>

\* send_command: append_log(f">>> {command}"); return True
SendLog(t) ==
    /\ At(t, "send_log")
    /\ append_log(LSent(th[t].cmd))
    /\ SendReturn(t, "true")
    /\ UNCHANGED <<droneVars, env, poller, arrived, chanVars, rcvVars, mode, vidVars,
                   wire, nev>>

\* send_command whose except branch logs the command as sent.
SendFailLogsSent(t) ==
    /\ At(t, "send_fail")
    /\ append_log(LSent(th[t].cmd))
    /\ SendReturn(t, "false")
    /\ UNCHANGED <<droneVars, env, poller, arrived, chanVars, rcvVars, mode, vidVars,
                   wire, nev>>

\* send_command: except OSError: append_log(f"Send failed: {exc}"); return False
SendFail(t) ==
    /\ At(t, "send_fail")
    /\ append_log(LSendFailed)
    /\ SendReturn(t, "false")
    /\ UNCHANGED <<droneVars, env, poller, arrived, chanVars, rcvVars, mode, vidVars,
                   wire, nev>>

\* ------------------------------------------------------------ stop
\* stop() that also clears the command-mode flag.
StopBodyClearsMode(t) ==
    /\ At(t, "stop")
    /\ chanLock = "free"
    /\ running' = FALSE
    /\ bound' = bound \ {sock}
    /\ sock' = None
    /\ chanLock' = t
    /\ mode' = FALSE
    /\ Goto(t, "stop_log")
    /\ UNCHANGED <<droneVars, env, poller, arrived, nsock, rcvVars, vidVars, log, wire,
                   nev>>

\* stop() that closes the socket and leaves self.running as it is.
StopBodyKeepsRunning(t) ==
    /\ At(t, "stop")
    /\ chanLock = "free"
    /\ UNCHANGED running
    /\ bound' = bound \ {sock}
    /\ sock' = None
    /\ chanLock' = t
    /\ Goto(t, "stop_log")
    /\ UNCHANGED <<droneVars, env, poller, arrived, nsock, rcvVars, mode, vidVars, log,
                   wire, nev>>

\* TelloController.stop, up to the log line: under self.lock, clear running,
\* close the socket and forget it.
StopBody(t) ==
    /\ At(t, "stop")
    /\ chanLock = "free"
    /\ running' = FALSE
    /\ bound' = bound \ {sock}
    /\ sock' = None
    /\ chanLock' = t
    /\ Goto(t, "stop_log")
    /\ UNCHANGED <<droneVars, env, poller, arrived, nsock, rcvVars, mode, vidVars, log,
                   wire, nev>>

\* TelloController.stop, line 104: append_log is called with self.lock still
\* held and takes log_lock: the thread now holds both.
StopLogEnter(t) ==
    /\ At(t, "stop_log")
    /\ Goto(t, "stop_app")
    /\ UNCHANGED <<droneVars, env, poller, arrived, chanVars, rcvVars, mode, vidVars, log,
                   wire, nev>>

\* TelloController.stop, the end: the line is appended, log_lock is given back,
\* then self.lock;
\* reset_drone_session goes on to state.set_command_mode(False), and
\* TelloApp._on_close to root.destroy().
StopLog(t) ==
    /\ At(t, "stop_app")
    /\ log' = Append(log, LClosed)
    /\ chanLock' = "free"
    /\ IF th[t].op = "tk_close" THEN Finish(t, "closed") ELSE Goto(t, "reset_mode")
    /\ UNCHANGED <<droneVars, env, poller, arrived, sock, running, bound, nsock, rcvVars,
                   mode, vidVars, wire, nev>>

\* ------------------------------------------------------------ receiver
\* _listen that goes on waiting for datagrams when the flag is cleared.
RLoopIgnoresFlag(i) ==
    /\ impl = "web"
    /\ rpc[i] = "loop"
    /\ IF running /\ sock # None
       THEN \/ /\ sock \in bound
               /\ nev < MaxEvents
               /\ nev' = nev + 1
               /\ \E d \in Replies :
                      /\ rdg' = [rdg EXCEPT ![i] = d]
                      /\ arrived' = Append(arrived, d)
               /\ rpc' = [rpc EXCEPT ![i] = "rlog"]
            \/ /\ rpc' = [rpc EXCEPT ![i] = "done"]
               /\ UNCHANGED <<rdg, arrived, nev>>
       ELSE UNCHANGED <<rpc, rdg, arrived, nev>>
    /\ UNCHANGED <<droneVars, env, poller, chanVars, mode, vidVars, log, wire, th>>

\* _listen, one turn of the loop: while self.running and self.sock, then
\* self.sock.recvfrom(1024), which returns a datagram, times out (continue:
\* nothing changes) or raises OSError (break).  The step is taken when the
\* call returns.  A thread that passed the loop test before a stop() ends all
\* the same: on the AttributeError of None.recvfrom, on the OSError of the
\* closed socket, or at the loop test after the timeout.
RLoop(i) ==
    /\ impl = "web"
    /\ rpc[i] = "loop"
    /\ IF running /\ sock # None
       THEN \/ /\ sock \in bound
               /\ nev < MaxEvents
               /\ nev' = nev + 1
               /\ \E d \in Replies :
                      /\ rdg' = [rdg EXCEPT ![i] = d]
                      /\ arrived' = Append(arrived, d)
               /\ rpc' = [rpc EXCEPT ![i] = "rlog"]
            \/ /\ rpc' = [rpc EXCEPT ![i] = "done"]
               /\ UNCHANGED <<rdg, arrived, nev>>
       ELSE /\ rpc' = [rpc EXCEPT ![i] = "done"]
            /\ UNCHANGED <<rdg, arrived, nev>>
    /\ UNCHANGED <<droneVars, env, poller, chanVars, mode, vidVars, log, wire, th>>

\* _listen: decoded = response.decode(...); append_log(f"<<< {decoded}")
RLog(i) ==
    /\ rpc[i] = "rlog"
    /\ append_log(LRecv(rdg[i]))
    /\ rpc' = [rpc EXCEPT ![i] = "loop"]
    /\ rdg' = [rdg EXCEPT ![i] = ""]
    /\ UNCHANGED <<droneVars, env, poller, arrived, chanVars, mode, vidVars, wire, th,
                   nev>>

\* ------------------------------------------------------------ mode gate
\* ensure_command_mode: if state.in_command_mode(): return already active
EnsureCheck(t) ==
    /\ At(t, "ens")
    /\ IF mode THEN Finish(t, "already") ELSE Goto(t, "start")
    /\ UNCHANGED <<droneVars, env, poller, arrived, chanVars, rcvVars, mode, vidVars, log,
                   wire, nev>>

\* ensure_command_mode after a send that returned True:
\* state.set_command_mode(True); append_log("Command mode engaged.")
EnsureSet(t) ==
    /\ At(t, "ens_set")
    /\ mode' = TRUE
    /\ append_log(LEngaged)
    /\ Finish(t, "engaged")
    /\ UNCHANGED <<droneVars, env, poller, arrived, chanVars, rcvVars, vidVars, wire,
                   nev>>

\* ensure_command_mode that sets the flag whatever send_command returned.
EnsureFailSetsMode(t) ==
    /\ At(t, "ens_fail")
    /\ mode' = TRUE
    /\ append_log(LEngaged)
    /\ Finish(t, "engaged")
    /\ UNCHANGED <<droneVars, env, poller, arrived, chanVars, rcvVars, vidVars, wire,
                   nev>>

\* ensure_command_mode after a send that returned False
EnsureFail(t) ==
    /\ At(t, "ens_fail")
    /\ append_log(LEngageFailed)
    /\ Finish(t, "unable")
    /\ UNCHANGED <<droneVars, env, poller, arrived, chanVars, rcvVars, mode, vidVars,
                   wire, nev>>

\* _handle_command / _handle_move: if not state.in_command_mode(): 400
ModeGate(t) ==
    /\ At(t, "gate")
    /\ IF mode THEN Goto(t, "start") ELSE Finish(t, "modeerr")
    /\ UNCHANGED <<droneVars, env, poller, arrived, chanVars, rcvVars, mode, vidVars, log,
                   wire, nev>>

\* reset_drone_session, the end: state.set_command_mode(False);
\* _handle_wifi_home goes on to connect_home_wifi()
ResetMode(t) ==
    /\ At(t, "reset_mode")
    /\ mode' = FALSE
    /\ Goto(t, "home_wifi")
    /\ UNCHANGED <<droneVars, env, poller, arrived, chanVars, rcvVars, vidVars, log, wire,
                   nev>>

\* _handle_wifi_home after reset_drone_session: connect_home_wifi() and the
\* answer.  What they append to the log ("Switching ... back to home Wi-Fi",
\* "Connecting ...", the output of networksetup, or the except branch's
\* "Home Wi-Fi connect failed/error") is one line here, LHomeWifi, whatever
\* the outcome of joining the network.  An exception that came out of
\* reset_drone_session arrives at the same except branch.
HomeWifi(t) ==
    /\ th[t].pc \in {"home_wifi", "home_err"}
    /\ append_log(IF At(t, "home_err") THEN LHomeError ELSE LHomeWifi)
    /\ Finish(t, IF At(t, "home_err") THEN "error" ELSE "reset")
    /\ UNCHANGED <<droneVars, env, poller, arrived, chanVars, rcvVars, mode, vidVars,
                   wire, nev>>

\* ------------------------------------------------------------ video ingest
\* VideoStreamer.start without its test of state.in_command_mode().
VideoStartCheckNoMode(t) ==
    /\ At(t, "vs")
    /\ IF ~cv2
       THEN /\ append_log(LOpenCVMissing)
            /\ Finish(t, "nocv2")
       ELSE /\ Goto(t, "vs_en")
            /\ UNCHANGED log
    /\ UNCHANGED <<droneVars, env, poller, arrived, chanVars, rcvVars, mode, vidVars,
                   wire, nev>>

\* VideoStreamer.start: if cv2 is None: log and refuse; if not
\* state.in_command_mode(): log and refuse
VideoStartCheck(t) ==
    /\ At(t, "vs")
    /\ IF ~cv2
       THEN /\ append_log(LOpenCVMissing)
            /\ Finish(t, "nocv2")
       ELSE IF mode
       THEN /\ Goto(t, "vs_en")
            /\ UNCHANGED log
       ELSE /\ append_log(LVideoBeforeMode)
            /\ Finish(t, "needmode")
    /\ UNCHANGED <<droneVars, env, poller, arrived, chanVars, rcvVars, mode, vidVars,
                   wire, nev>>

\* VideoStreamer.start: if not self.stream_enabled: send_command("streamon")
VideoStartEnabled(t) ==
    /\ At(t, "vs_en")
    /\ Goto(t, IF streamEnabled THEN "vs_run" ELSE "start")
    /\ UNCHANGED <<droneVars, env, poller, arrived, chanVars, rcvVars, mode, vidVars, log,
                   wire, nev>>

\* VideoStreamer.start after a streamon that returned True:
\* self.stream_enabled = True; append_log("Drone video stream enabled.")
VideoStartEnable(t) ==
    /\ At(t, "vs_enable")
    /\ streamEnabled' = TRUE
    /\ append_log(LStreamEnabled)
    /\ Goto(t, "vs_run")
    /\ UNCHANGED <<droneVars, env, poller, arrived, chanVars, rcvVars, mode, vrunning,
                   latestFrame, nframes, ncap, cpc, cbuf, wire, nev>>

\* VideoStreamer.start after a streamon that returned False
VideoStartFail(t) ==
    /\ At(t, "vs_fail")
    /\ append_log(LStreamonFailed)
    /\ Finish(t, "rejected")
    /\ UNCHANGED <<droneVars, env, poller, arrived, chanVars, rcvVars, mode, vidVars,
                   wire, nev>>

\* VideoStreamer.start: if self.running: return True, "already running"
VideoStartRunning(t) ==
    /\ At(t, "vs_run")
    /\ IF vrunning THEN Finish(t, "already_running") ELSE Goto(t, "vs_spawn")
    /\ UNCHANGED <<droneVars, env, poller, arrived, chanVars, rcvVars, mode, vidVars, log,
                   wire, nev>>

\* VideoStreamer.start: self.running = True; the capture thread is created
\* and started; return True, "Video stream starting."
VideoStartSpawn(t) ==
    /\ At(t, "vs_spawn")
    /\ vrunning' = TRUE
    /\ ncap' = ncap + 1
    /\ cpc' = [cpc EXCEPT ![ncap + 1] = "open"]
    /\ Finish(t, "starting")
    /\ UNCHANGED <<droneVars, env, poller, arrived, chanVars, rcvVars, mode,
                   streamEnabled, latestFrame, nframes, cbuf, log, wire, nev>>

\* _capture_loop, line 183: append_log("Connecting to Tello video feed...")
CaptureConnect(j) ==
    /\ cpc[j] = "open"
    /\ append_log(LConnecting)
    /\ cpc' = [cpc EXCEPT ![j] = "opening"]
    /\ UNCHANGED <<droneVars, env, poller, arrived, chanVars, rcvVars, mode, vrunning,
                   streamEnabled, latestFrame, nframes, ncap, cbuf, wire, th,
                   nev>>

\* _capture_loop that gives up without clearing stream_enabled.
CaptureGiveUpKeepsEnabled(j) ==
    /\ cpc[j] \in {"failed", "failed2"}
    /\ IF cpc[j] = "failed"
       THEN /\ vrunning' = FALSE
            /\ cpc' = [cpc EXCEPT ![j] = "failed2"]
            /\ UNCHANGED streamEnabled
       ELSE /\ cpc' = [cpc EXCEPT ![j] = "done"]
            /\ UNCHANGED <<vrunning, streamEnabled>>
    /\ UNCHANGED <<droneVars, env, poller, arrived, chanVars, rcvVars, mode, latestFrame,
                   nframes, ncap, cbuf, log, wire, th, nev>>

\* _capture_loop, lines 184-186: cv2.VideoCapture(TELLO_STREAM_URL) returns a
\* capture that is open, and the loop starts, or one that is not, and
\* "Unable to open the video stream." is logged.
CaptureOpen(j) ==
    /\ cpc[j] = "opening"
    /\ \/ /\ cpc' = [cpc EXCEPT ![j] = "loop"]
          /\ UNCHANGED log
       \/ /\ append_log(LUnableOpen)
          /\ cpc' = [cpc EXCEPT ![j] = "failed"]
    /\ UNCHANGED <<droneVars, env, poller, arrived, chanVars, rcvVars, mode, vrunning,
                   streamEnabled, latestFrame, nframes, ncap, cbuf, wire, th,
                   nev>>

\* _capture_loop, lines 187-189: self.running = False, then
\* self.stream_enabled = False, then return; no lock is held.
CaptureGiveUp(j) ==
    /\ cpc[j] \in {"failed", "failed2"}
    /\ IF cpc[j] = "failed"
       THEN /\ vrunning' = FALSE
            /\ cpc' = [cpc EXCEPT ![j] = "failed2"]
            /\ UNCHANGED streamEnabled
       ELSE /\ streamEnabled' = FALSE
            /\ cpc' = [cpc EXCEPT ![j] = "done"]
            /\ UNCHANGED vrunning
    /\ UNCHANGED <<droneVars, env, poller, arrived, chanVars, rcvVars, mode, latestFrame,
                   nframes, ncap, cbuf, log, wire, th, nev>>

\* _capture_loop that never looks at the running flag.
CaptureLoopIgnoresFlag(j) ==
    /\ cpc[j] = "loop"
    /\ cpc' = [cpc EXCEPT ![j] = "read"]
    /\ UNCHANGED <<droneVars, env, poller, arrived, chanVars, rcvVars, mode, vrunning,
                   streamEnabled, latestFrame, nframes, ncap, cbuf, log, wire,
                   th, nev>>

\* _capture_loop: while self.running; cap.release() after the loop
CaptureLoop(j) ==
    /\ cpc[j] = "loop"
    /\ cpc' = [cpc EXCEPT ![j] = IF vrunning THEN "read" ELSE "released"]
    /\ UNCHANGED <<droneVars, env, poller, arrived, chanVars, rcvVars, mode, vrunning,
                   streamEnabled, latestFrame, nframes, ncap, cbuf, log, wire,
                   th, nev>>

\* _capture_loop, lines 192-196: cap.read() and cv2.imencode(".jpg", frame).
\* When both succeed the thread has the buffer of one more encode (encodes are
\* numbered in the order they finish); when one fails it sleeps and goes
\* round the loop.
CaptureRead(j) ==
    /\ cpc[j] = "read"
    /\ \/ /\ nev < MaxEvents
          /\ nev' = nev + 1
          /\ nframes' = nframes + 1
          /\ cbuf' = [cbuf EXCEPT ![j] = nframes + 1]
          /\ cpc' = [cpc EXCEPT ![j] = "write"]
       \/ /\ cpc' = [cpc EXCEPT ![j] = "loop"]
          /\ UNCHANGED <<nframes, cbuf, nev>>
    /\ UNCHANGED <<droneVars, env, poller, arrived, chanVars, rcvVars, mode, vrunning,
                   streamEnabled, latestFrame, ncap, log, wire, th>>

\* _capture_loop, lines 197-199: with self.frame_lock:
\* self.latest_frame = buffer.tobytes()
CaptureWrite(j) ==
    /\ cpc[j] = "write"
    /\ latestFrame' = cbuf[j]
    /\ cbuf' = [cbuf EXCEPT ![j] = None]
    /\ cpc' = [cpc EXCEPT ![j] = "loop"]
    /\ UNCHANGED <<droneVars, env, poller, arrived, chanVars, rcvVars, mode, vrunning,
                   streamEnabled, nframes, ncap, log, wire, th, nev>>

\* VideoStreamer.get_frame: with self.frame_lock: return self.latest_frame
get_frame == latestFrame

\* VideoStreamer.stop that clears the frame cache as well.
VideoStopClearsFrame(t) ==
    /\ At(t, "vstop")
    /\ vrunning' = FALSE
    /\ latestFrame' = None
    /\ Goto(t, "vstop_en")
    /\ UNCHANGED <<droneVars, env, poller, arrived, chanVars, rcvVars, mode,
                   streamEnabled, nframes, ncap, cpc, cbuf, log, wire, nev>>

\* VideoStreamer.stop: self.running = False; the join waits at most a second
\* for the capture thread and changes nothing.
VideoStop(t) ==
    /\ At(t, "vstop")
    /\ vrunning' = FALSE
    /\ Goto(t, "vstop_en")
    /\ UNCHANGED <<droneVars, env, poller, arrived, chanVars, rcvVars, mode,
                   streamEnabled, latestFrame, nframes, ncap, cpc, cbuf, log,
                   wire, nev>>

\* VideoStreamer.stop that sends streamoff whatever stream_enabled is.
VideoStopEnabledAlways(t) ==
    /\ At(t, "vstop_en")
    /\ th' = [th EXCEPT ![t].pc = "start", ![t].cmd = "streamoff"]
    /\ UNCHANGED <<droneVars, env, poller, arrived, chanVars, rcvVars, mode, vidVars, log,
                   wire, nev>>

\* VideoStreamer.stop: if self.stream_enabled: send_command("streamoff");
\* reset_drone_session goes on to controller.stop()
VideoStopEnabled(t) ==
    /\ At(t, "vstop_en")
    /\ th' = [th EXCEPT ![t].pc = IF streamEnabled THEN "start" ELSE "stop",
                        ![t].cmd = IF streamEnabled THEN "streamoff" ELSE ""]
    /\ UNCHANGED <<droneVars, env, poller, arrived, chanVars, rcvVars, mode, vidVars, log,
                   wire, nev>>

\* VideoStreamer.stop: finally: self.stream_enabled = False.  An exception
\* out of send_command goes on through reset_drone_session to
\* _handle_wifi_home's except branch: controller.stop() and
\* set_command_mode(False) are not reached.
VideoStopFinally(t) ==
    /\ th[t].pc \in {"vstop_fin", "vstop_exc"}
    /\ streamEnabled' = FALSE
    /\ Goto(t, IF At(t, "vstop_exc") THEN "home_err" ELSE "stop")
    /\ UNCHANGED <<droneVars, env, poller, arrived, chanVars, rcvVars, mode, vrunning,
                   latestFrame, nframes, ncap, cpc, cbuf, log, wire, nev>>

\* ------------------------------------------------------------ requests
\* A handler thread takes up a request: op is the endpoint, c the command it
\* will send, p where its first access to shared state is.  The parsing of the
\* payload before that touches nothing shared and is part of this step; a
\* payload that is refused there (p = "idle") is answered 400 at once.
Begin(t, o, c, p) ==
    /\ impl = "web"
    /\ At(t, "idle")
    /\ nev < MaxEvents
    /\ nev' = nev + 1
    /\ th' = [th EXCEPT ![t] = IF p = "idle" THEN Done("badreq")
                               ELSE [pc |-> p, op |-> o, cmd |-> c, res |-> "none"]]
    /\ UNCHANGED <<droneVars, env, poller, arrived, chanVars, rcvVars, mode, vidVars, log,
                   wire>>

\* POST /api/command: an empty command is a 400 (send_error and return),
\* "command" goes through ensure_command_mode, anything else through the
\* mode check.
HandleCommand(t) ==
    /\ t \in Handlers
    /\ \E c \in Commands :
        IF c = "" THEN Begin(t, "command", c, "idle")
        ELSE IF c = "command" THEN Begin(t, "command", c, "ens")
        ELSE Begin(t, "command", c, "gate")

\* POST /api/move: a direction outside left/right/forward/back is a 400.
HandleMove(t) ==
    /\ t \in Handlers
    /\ \E d \in Directions :
        IF d \in ValidDirections
        THEN Begin(t, "move", MoveCommand(d), "gate")
        ELSE Begin(t, "move", "", "idle")

\* POST /api/wifi/home: reset_drone_session(), which starts with
\* video_streamer.stop()
HandleWifiHome(t) == t \in Handlers /\ Begin(t, "wifi_home", "", "vstop")

\* POST /api/video/start: video_streamer.start()
HandleVideoStart(t) == t \in Handlers /\ Begin(t, "video_start", "streamon", "vs")

\* ------------------------------------------------------------ tello_ui.py
\* The Tk program: its main loop runs one callback at a time, so start, stop
\* and send_command have one caller; the receiver thread runs beside it.  Its
\* log is the log_queue that _queue_log puts the lines on.  StartLog, SendTo,
\* SendLog, SendFail, StopBody, StopLog and RLog are the same statements in
\* both files and serve both programs.
TkBegin(o, c, p) ==
    /\ impl = "tk"
    /\ At(Ui, "idle")
    /\ th[Ui].res # "closed"
    /\ nev < MaxEvents
    /\ nev' = nev + 1
    /\ th' = [th EXCEPT ![Ui] = IF p = "idle" THEN Done("modeerr")
                                ELSE [pc |-> p, op |-> o, cmd |-> c, res |-> "none"]]
    /\ UNCHANGED <<droneVars, env, poller, arrived, chanVars, rcvVars, mode, vidVars, log,
                   wire>>

\* TelloApp.enter_command_mode: send_command("command") whatever the flag is
TkEnterCommandMode == TkBegin("tk_enter", "command", "start")

\* TelloApp._send_simple / _ensure_command_mode: a warning box and no send
\* while command_mode is False
TkSendSimple ==
    \E k \in Keywords : TkBegin("tk_send", k, IF mode THEN "start" ELSE "idle")

\* TelloApp._send_move
TkSendMove ==
    \E d \in Directions \cap ValidDirections :
        TkBegin("tk_send", MoveCommand(d), IF mode THEN "start" ELSE "idle")

\* TelloApp._on_close: self.controller.stop(); self.root.destroy()
TkOnClose == TkBegin("tk_close", "", "stop")

\* tello_ui's TelloController.start: self.sock is assigned before the bind, so
\* a bind that raises leaves the unbound socket in self.sock, running False
\* and no receiver thread.
TkStartBody(t) ==
    /\ impl = "tk"
    /\ At(t, "start")
    /\ chanLock = "free"
    /\ IF sock # None
       THEN /\ Goto(t, "sendto")
            /\ UNCHANGED <<chanVars, rpc>>
       ELSE /\ nsock' = nsock + 1
            /\ sock' = nsock + 1
            /\ \/ /\ bound' = bound \cup {nsock + 1}
                  /\ running' = TRUE
                  /\ rpc' = [rpc EXCEPT ![nsock + 1] = "loop"]
                  /\ chanLock' = t
                  /\ Goto(t, "start_log")
               \/ /\ SendReturn(t, "raised")
                  /\ UNCHANGED <<bound, running, rpc, chanLock>>
    /\ UNCHANGED <<droneVars, env, poller, arrived, rdg, mode, vidVars, log, wire, nev>>

\* TelloApp.enter_command_mode after a send that returned True:
\* self.command_mode = True; self._queue_log("Command mode engaged.")
TkEngage(t) ==
    /\ At(t, "tk_set")
    /\ mode' = TRUE
    /\ append_log(LEngaged)
    /\ Finish(t, "engaged")
    /\ UNCHANGED <<droneVars, env, poller, arrived, chanVars, rcvVars, vidVars, wire,
                   nev>>

\* tello_ui's _listen, one turn of the loop: while self.running, then
\* self.sock.recvfrom(1024): the AttributeError of None.recvfrom ends the
\* thread, as the OSError does.
TkRLoop(i) ==
    /\ impl = "tk"
    /\ rpc[i] = "loop"
    /\ IF running
       THEN IF sock = None
            THEN /\ rpc' = [rpc EXCEPT ![i] = "done"]
                 /\ UNCHANGED <<rdg, arrived, nev>>
            ELSE \/ /\ sock \in bound
                    /\ nev < MaxEvents
                    /\ nev' = nev + 1
                    /\ \E d \in Replies :
                           /\ rdg' = [rdg EXCEPT ![i] = d]
                           /\ arrived' = Append(arrived, d)
                    /\ rpc' = [rpc EXCEPT ![i] = "rlog"]
                 \/ /\ rpc' = [rpc EXCEPT ![i] = "done"]
                    /\ UNCHANGED <<rdg, arrived, nev>>
       ELSE /\ rpc' = [rpc EXCEPT ![i] = "done"]
            /\ UNCHANGED <<rdg, arrived, nev>>
    /\ UNCHANGED <<droneVars, env, poller, chanVars, mode, vidVars, log, wire, th>>

\* ------------------------------------------------------------ log polling
\* q[start:] of a list q.  A negative start counts from the end of the list
\* and stops at its beginning; a start beyond the end gives the empty list.
Slice(q, start) ==
    LET first == IF start >= 0 THEN start
                 ELSE IF Len(q) + start >= 0 THEN Len(q) + start
                 ELSE 0
    IN  SubSeq(q, first + 1, Len(q))

\* GET /api/logs that answers next_index = len(lines), without the start.
GetLogsNoStart ==
    /\ impl = "web"
    /\ \A u \in Threads : th[u].pc \notin {"start_app", "stop_app"}
    /\ LET start == nextIndex
           lines == Slice(log, start)
           next_index == Len(lines)
       IN  /\ delivered' = delivered \o lines
           /\ nextIndex' = next_index
    /\ UNCHANGED <<droneVars, env, arrived, chanVars, rcvVars, mode, vidVars, log, wire, th,
                   nev>>

\* do_GET, /api/logs, lines 537-545, called by the one poller of a page with
\* the next index of its last answer (0 the first time): with log_lock:
\* lines = log_lines[start:]; next_index = start + len(lines).  The poller
\* appends the lines to what it shows and keeps next_index.
GetLogs ==
    /\ impl = "web"
    /\ \A u \in Threads : th[u].pc \notin {"start_app", "stop_app"}
    /\ LET start == nextIndex
           lines == Slice(log, start)
           next_index == start + Len(lines)
       IN  /\ delivered' = delivered \o lines
           /\ nextIndex' = next_index
    /\ UNCHANGED <<droneVars, env, arrived, chanVars, rcvVars, mode, vidVars, log, wire, th,
                   nev>>

\* The values of the query parameter "from" that int() accepts, within the
\* bound.
FromIndices == (0 - MaxFrom)..MaxFrom

\* do_GET, /api/logs, lines 537-545, as the first poll of a client that
\* passes a "from" of its own choosing: start = int(query.get("from", ...));
\* lines = log_lines[start:]; next_index = start + len(lines).  The client
\* keeps the lines and continues with GetLogs from next_index.
GetLogsFrom(fromIndex) ==
    /\ impl = "web"
    /\ nextIndex = 0
    /\ delivered = <<>>
    /\ \A u \in Threads : th[u].pc \notin {"start_app", "stop_app"}
    /\ LET start == fromIndex
           lines == Slice(log, start)
           next_index == start + Len(lines)
       IN  /\ delivered' = delivered \o lines
           /\ nextIndex' = next_index
    /\ UNCHANGED <<droneVars, env, arrived, chanVars, rcvVars, mode, vidVars, log, wire, th,
                   nev>>

\* ------------------------------------------------------------ DroneClient
Tello == 1                          \* the object tello.Tello() returns
FrameRead == 1                      \* the object get_frame_read() returns
Batteries == {20, 80}               \* what get_battery() returns

SDebug == "Debug mode: drone connection skipped."
SUnavailable == "Drone unavailable"      \* f"Drone unavailable: {exc}"
SRcUnavailable == "RC control unavailable; check connection."

\* f"Connected (battery: {self.battery}%)"
SConnected(b) ==
    IF b = 20 THEN "Connected (battery: 20%)" ELSE "Connected (battery: 80%)"

Methods ==
    {"connect", "read_frame", "send_rc_control", "takeoff", "land",
     "shutdown", "refresh_battery"}

\* Whether the calls a method makes on the Tello object or the frame reader
\* stand inside its try ... except Exception.
InTry == [m \in Methods |-> TRUE]

\* The cockpit thread calls method m: it is in no other method, and no
\* exception has ended the program.
Enter(m) ==
    /\ impl = "cockpit"
    /\ dpc = "idle"
    /\ ~raised
    /\ nops < MaxOps
    /\ nops' = nops + 1
    /\ dop' = m

\* A call made by an atomic method raises: the except clause takes it, or it
\* leaves the method.
Escapes(m) == ~InTry[m]

\* connect(), lines 24-28: the debug test; in debug mode the status is set
\* and returned.
connect ==
    /\ Enter("connect")
    /\ dcalls' = <<>>
    /\ raised' = FALSE
    /\ IF debug
       THEN /\ status' = SDebug
            /\ dpc' = "idle"
       ELSE /\ dpc' = "new"
            /\ UNCHANGED status
    /\ UNCHANGED <<webVars, debug, drone, frame_reader, battery>>

\* A statement of connect()'s try block raises: line 36 takes the exception,
\* were the statement outside the block it would leave connect().
ConnectRaise ==
    IF InTry["connect"]
    THEN /\ dpc' = "except"
         /\ UNCHANGED raised
    ELSE /\ dpc' = "idle"
         /\ raised' = TRUE

\* line 29: self.drone = tello.Tello().  The constructor opens sockets and
\* asks nothing of the drone; when it raises, self.drone keeps its value.
ConnectNew ==
    /\ dpc = "new"
    /\ \/ /\ drone' = Tello
          /\ dpc' = "connect"
          /\ UNCHANGED raised
       \/ /\ ConnectRaise
          /\ UNCHANGED drone
    /\ UNCHANGED <<webVars, debug, frame_reader, status, battery, dop, dcalls,
                   nops>>

\* lines 30-31: self.drone.connect(); self.drone.streamon()
ConnectCall ==
    /\ dpc \in {"connect", "streamon"}
    /\ dcalls' = Append(dcalls, dpc)
    /\ \/ /\ dpc' = IF dpc = "connect" THEN "streamon" ELSE "get_frame_read"
          /\ UNCHANGED raised
       \/ ConnectRaise
    /\ UNCHANGED <<webVars, client, dop, nops>>

\* line 32: self.frame_reader = self.drone.get_frame_read()
ConnectFrameRead ==
    /\ dpc = "get_frame_read"
    /\ dcalls' = Append(dcalls, "get_frame_read")
    /\ \/ /\ frame_reader' = FrameRead
          /\ dpc' = "get_battery"
          /\ UNCHANGED raised
       \/ /\ ConnectRaise
          /\ UNCHANGED frame_reader
    /\ UNCHANGED <<webVars, debug, drone, status, battery, dop, nops>>

\* lines 33-35 and 41: self.battery = self.drone.get_battery(); the status
\* is set, logged and returned.
ConnectBattery ==
    /\ dpc = "get_battery"
    /\ dcalls' = Append(dcalls, "get_battery")
    /\ \/ \E b \in Batteries :
              /\ battery' = b
              /\ status' = SConnected(b)
              /\ dpc' = "idle"
              /\ UNCHANGED raised
       \/ /\ ConnectRaise
          /\ UNCHANGED <<battery, status>>
    /\ UNCHANGED <<webVars, debug, drone, frame_reader, dop, nops>>

\* The except clause without lines 37-38: drone and frame_reader keep what
\* the try block gave them.
ConnectExceptKeepsDrone ==
    /\ dpc = "except"
    /\ status' = SUnavailable
    /\ dpc' = "idle"
    /\ UNCHANGED <<webVars, debug, drone, frame_reader, battery, dop, dcalls,
                   raised, nops>>

\* lines 36-41: except Exception: self.drone = None; self.frame_reader =
\* None; the status is set, logged and returned.
ConnectExcept ==
    /\ dpc = "except"
    /\ drone' = None
    /\ frame_reader' = None
    /\ status' = SUnavailable
    /\ dpc' = "idle"
    /\ UNCHANGED <<webVars, debug, battery, dop, dcalls, raised, nops>>

\* read_frame(), lines 43-49: None in debug mode or without a frame reader;
\* else the reader's frame attribute, or None when reading it raises.
read_frame ==
    /\ Enter("read_frame")
    /\ IF debug \/ frame_reader = None
       THEN /\ dcalls' = <<>>
            /\ raised' = FALSE
       ELSE /\ dcalls' = <<"frame">>
            /\ \E ok \in BOOLEAN : raised' = (~ok /\ Escapes("read_frame"))
    /\ dpc' = "idle"
    /\ UNCHANGED <<webVars, client>>

\* send_rc_control(), lines 51-58
send_rc_control ==
    /\ Enter("send_rc_control")
    /\ IF debug \/ drone = None
       THEN /\ dcalls' = <<>>
            /\ raised' = FALSE
            /\ UNCHANGED status
       ELSE /\ dcalls' = <<"send_rc_control">>
            /\ \E ok \in BOOLEAN :
                   /\ raised' = (~ok /\ Escapes("send_rc_control"))
                   /\ status' = IF ~ok /\ ~Escapes("send_rc_control")
                                THEN SRcUnavailable
                                ELSE status
    /\ dpc' = "idle"
    /\ UNCHANGED <<webVars, debug, drone, frame_reader, battery>>

\* takeoff(), lines 60-66, and land(), lines 68-74: the one call m on the
\* Tello object, unless in debug mode or without one.
Flight(m) ==
    /\ Enter(m)
    /\ IF debug \/ drone = None
       THEN /\ dcalls' = <<>>
            /\ raised' = FALSE
       ELSE /\ dcalls' = <<m>>
            /\ \E ok \in BOOLEAN : raised' = (~ok /\ Escapes(m))
    /\ dpc' = "idle"
    /\ UNCHANGED <<webVars, client>>

takeoff == Flight("takeoff")

land == Flight("land")

\* shutdown(), lines 76-83: without a Tello object nothing; else
\* send_rc_control(0, 0, 0, 0) and, when that returned, streamoff().  The
\* test does not look at debug.
shutdown ==
    /\ Enter("shutdown")
    /\ IF drone = None
       THEN /\ dcalls' = <<>>
            /\ raised' = FALSE
       ELSE \/ /\ dcalls' = <<"send_rc_control">>
               /\ raised' = Escapes("shutdown")
            \/ /\ dcalls' = <<"send_rc_control", "streamoff">>
               /\ \E ok \in BOOLEAN : raised' = (~ok /\ Escapes("shutdown"))
    /\ dpc' = "idle"
    /\ UNCHANGED <<webVars, client>>

\* refresh_battery(), lines 85-92
refresh_battery ==
    /\ Enter("refresh_battery")
    /\ IF debug \/ drone = None
       THEN /\ dcalls' = <<>>
            /\ raised' = FALSE
            /\ UNCHANGED battery
       ELSE /\ dcalls' = <<"get_battery">>
            /\ \/ /\ \E b \in Batteries : battery' = b
                  /\ raised' = FALSE
               \/ /\ raised' = Escapes("refresh_battery")
                  /\ UNCHANGED battery
    /\ dpc' = "idle"
    /\ UNCHANGED <<webVars, debug, drone, frame_reader, status>>

\* The cockpit program as constructed: DroneClient(debug=args.debug),
\* cockpit.py line 424.  It has no command channel, video ingest or log of
\* the other two programs.
CockpitFresh ==
    /\ impl = "cockpit"
    /\ debug \in BOOLEAN
    /\ ClientDefaults
    /\ cv2 = FALSE
    /\ sock = None
    /\ running = FALSE
    /\ chanLock = "free"
    /\ bound = {}
    /\ nsock = 0
    /\ rpc = [i \in SockIds |-> "off"]
    /\ rdg = [i \in SockIds |-> ""]
    /\ mode = FALSE
    /\ vrunning = FALSE
    /\ streamEnabled = FALSE
    /\ latestFrame = None
    /\ nframes = 0
    /\ ncap = 0
    /\ cpc = [j \in CapIds |-> "off"]
    /\ cbuf = [j \in CapIds |-> None]
    /\ log = <<>>
    /\ wire = <<>>
    /\ th = [t \in Threads |-> Idle]
    /\ arrived = <<>>
    /\ nextIndex = 0
    /\ delivered = <<>>
    /\ nev = 0

\* The steps of the cockpit thread inside DroneClient.
NextDrone ==
    \/ connect
    \/ ConnectNew
    \/ ConnectCall
    \/ ConnectFrameRead
    \/ ConnectBattery
    \/ ConnectExcept
    \/ read_frame
    \/ send_rc_control
    \/ takeoff
    \/ land
    \/ shutdown
    \/ refresh_battery

\* The steps of the Tk program alone: its callbacks, its start() and its
\* receiver loop.
NextTk ==
    \/ TkEnterCommandMode
    \/ TkSendSimple
    \/ TkSendMove
    \/ TkOnClose
    \/ TkStartBody(Ui)
    \/ TkEngage(Ui)
    \/ \E i \in SockIds : TkRLoop(i)

\* The steps of the web program, and those of send_command, stop() and the
\* receiver's log line, which are the same statements in the Tk program.
NextWeb ==
    \/ \E t \in Threads :
        \/ HandleCommand(t)
        \/ HandleMove(t)
        \/ HandleWifiHome(t)
        \/ HandleVideoStart(t)
        \/ VideoStartCheck(t)
        \/ VideoStartEnabled(t)
        \/ VideoStartEnable(t)
        \/ VideoStartFail(t)
        \/ VideoStartRunning(t)
        \/ VideoStartSpawn(t)
        \/ VideoStop(t)
        \/ VideoStopEnabled(t)
        \/ VideoStopFinally(t)
        \/ ModeGate(t)
        \/ EnsureCheck(t)
        \/ EnsureSet(t)
        \/ EnsureFail(t)
        \/ StartBody(t)
        \/ StartLogEnter(t)
        \/ StartLog(t)
        \/ SendTo(t)
        \/ SendLog(t)
        \/ SendFail(t)
        \/ StopBody(t)
        \/ StopLogEnter(t)
        \/ StopLog(t)
        \/ ResetMode(t)
        \/ HomeWifi(t)
    \/ \E i \in SockIds :
        \/ RLoop(i)
        \/ RLog(i)
    \/ \E j \in CapIds :
        \/ CaptureConnect(j)
        \/ CaptureOpen(j)
        \/ CaptureGiveUp(j)
        \/ CaptureLoop(j)
        \/ CaptureRead(j)
        \/ CaptureWrite(j)

Next == NextTk \/ NextWeb

\* Both programs, from the states of Init.
Spec == Init /\ [][Next]_vars

\* The web program from the states of InitDeep.
SpecDeep == InitDeep /\ [][NextWeb]_vars

\* The web program from the states of InitDoubled.
SpecDoubled == InitDoubled /\ [][NextWeb]_vars

\* The web program from the states of InitRebound.
SpecRebound == InitRebound /\ [][NextWeb]_vars

\* The web program with a page that polls the log.
SpecLogs == InitLogs /\ [][NextWeb \/ GetLogs]_vars

\* The web UI with a log poller whose first "from" is any integer.
NextPoll == NextWeb \/ GetLogs \/ \E f \in FromIndices : GetLogsFrom(f)
SpecPoll == InitLogs /\ [][NextPoll]_vars

\* The cockpit program's DroneClient, its methods called in any order.
SpecDrone == CockpitFresh /\ [][NextDrone]_vars

\* Fair scheduling of the threads that end on their own.  A receiver thread
\* whose recvfrom has returned by timeout or error gets to its loop test, and
\* one that has a datagram gets to log it; a capture thread gets to its loop
\* test, every cap.read() returns and a buffer that is encoded is stored; a
\* thread inside append_log gives log_lock back.  Nothing makes a request,
\* a datagram, a frame or a transport error happen.
Fairness ==
    /\ \A i \in SockIds :
        /\ WF_vars(RLoop(i) /\ ~(running /\ sock # None))
        /\ WF_vars(TkRLoop(i) /\ ~(running /\ sock # None))
        /\ WF_vars(RLog(i))
    /\ \A j \in CapIds :
        /\ WF_vars(CaptureLoop(j))
        /\ WF_vars(CaptureRead(j) /\ cpc'[j] = "loop")
        /\ WF_vars(CaptureWrite(j))
    /\ \A t \in Threads :
        /\ WF_vars(StartLog(t))
        /\ WF_vars(StopLog(t))

\* Both programs under fair scheduling.
SpecFair == Spec /\ Fairness

\* A step of thread t inside a request it has taken up: any statement of the
\* handlers, of ensure_command_mode, start(), send_command, stop() and of
\* VideoStreamer.start and stop.
ThreadStep(t) ==
    \/ VideoStartCheck(t)
    \/ VideoStartEnabled(t)
    \/ VideoStartEnable(t)
    \/ VideoStartFail(t)
    \/ VideoStartRunning(t)
    \/ VideoStartSpawn(t)
    \/ VideoStop(t)
    \/ VideoStopEnabled(t)
    \/ VideoStopFinally(t)
    \/ ModeGate(t)
    \/ EnsureCheck(t)
    \/ EnsureSet(t)
    \/ EnsureFail(t)
    \/ StartBody(t)
    \/ TkStartBody(t)
    \/ StartLogEnter(t)
    \/ StartLog(t)
    \/ SendTo(t)
    \/ SendLog(t)
    \/ SendFail(t)
    \/ StopBody(t)
    \/ StopLogEnter(t)
    \/ StopLog(t)
    \/ ResetMode(t)
    \/ HomeWifi(t)
    \/ TkEngage(t)

\* Every thread that can take its next step gets to take it: none of the
\* calls modelled blocks except on a lock (the sockets have a timeout, bind,
\* sendto and close return at once, the join in VideoStreamer.stop is
\* bounded).
Progress == \A t \in Threads : WF_vars(ThreadStep(t))

\* Both programs under fair scheduling of every thread.
SpecProgress == Spec /\ Fairness /\ Progress

\* ------------------------------------------------------------ properties
\* Thread t takes a step from position p.
Steps(t, p) == th[t].pc = p /\ th'[t] # th[t]

\* How often x occurs in the sequence q.
Count(q, x) == Cardinality({i \in DOMAIN q : q[i] = x})

\* The commands of POST /api/command and POST /api/move that go through the
\* mode check: every one but "command".
FlightCommands ==
    (Commands \ {"command", ""}) \cup {MoveCommand(d) : d \in ValidDirections}

\* Receiver and capture threads that have been started and have not ended.
LiveReceivers == {i \in SockIds : rpc[i] \in {"loop", "rlog"}}
LiveCaptures == {j \in CapIds : cpc[j] \notin {"off", "done", "released"}}

\* The channel is Listening: socket open and bound, running set, the receiver
\* thread of that socket spawned.
Listening ==
    /\ sock # None
    /\ sock \in bound
    /\ running
    /\ rpc[sock] # "off"

\* C1: sendCommand never raises to its caller: no request ends with an
\* exception that came out of send_command.
C1_SendNeverRaises ==
    \A t \in Threads : th[t].res \notin {"raised", "error"}

\* C2: no flight or movement datagram is ever handed to the transport while
\* the command-mode flag is false, a reset running beside the request
\* included.
C2_NoFlightWhileDisengaged ==
    \A i \in DOMAIN wire : wire[i].cmd \in FlightCommands => wire[i].mode

\* C3: at most one receiver thread is alive at any time.
C3_OneReceiver == Cardinality(LiveReceivers) <= 1

\* C4: at most one capture thread is alive at any time.
C4_OneCapture == Cardinality(LiveCaptures) <= 1

\* C5: start() is idempotent.  At most one socket is open and bound at any
\* time, each bound socket has its receiver thread, and a start() that finds
\* a socket changes nothing: no socket, no bind, no receiver thread, no log
\* line.  A receiver thread is spawned only by the start() that binds the
\* socket it is numbered after.
C5_StartIdempotent ==
    /\ [](/\ Cardinality(bound) <= 1
          /\ \A i \in bound : rpc[i] # "off"
          /\ Cardinality({i \in SockIds : rpc[i] # "off"}) <= nsock)
    /\ [][\A t \in Threads :
            /\ (Steps(t, "start") /\ sock # None) =>
                   /\ UNCHANGED <<chanVars, rcvVars, log>>
                   /\ th'[t].pc = "sendto"
            /\ \A i \in SockIds :
                   (rpc[i] = "off" /\ rpc'[i] # "off") =>
                       /\ sock = None
                       /\ sock' = i
                       /\ bound' = bound \cup {i}
                       /\ nsock' = nsock + 1]_vars

\* Two send_command calls have gone through one start(): one socket, one
\* receiver thread, one "UDP socket ready" line.
C5_Witness ==
    /\ Len(wire) >= 2
    /\ nsock = 1
    /\ bound = {1}
    /\ {i \in SockIds : rpc[i] # "off"} = {1}
    /\ Count(log, LReady) = 1

\* C6: a call of ensureCommandMode made while the flag is true sends nothing:
\* in the Tk program, whose callbacks run one at a time, no "command" datagram
\* leaves while the flag is true.
C6_SecondEnsureSendsNothing ==
    impl = "tk" =>
        \A i \in DOMAIN wire : wire[i].cmd = "command" => ~wire[i].mode

\* C7: the flag becomes true only in the step of ensure_command_mode /
\* enter_command_mode that follows a send_command("command") that returned
\* true, so a "command" datagram was handed to the transport before; the call
\* whose send returned false reports failure and leaves the flag as it was.
C7_ModeOnlyAfterCommandSent ==
    /\ [](/\ mode => \E i \in DOMAIN wire : wire[i].cmd = "command"
          /\ \A t \in Threads :
                th[t].pc \in {"ens_set", "tk_set"} =>
                    \E i \in DOMAIN wire : wire[i].cmd = "command")
    /\ [][/\ (~mode /\ mode') =>
                \E t \in Threads :
                    /\ th[t].pc \in {"ens_set", "tk_set"}
                    /\ th'[t] = Done("engaged")
          /\ \A t \in Threads :
                /\ Steps(t, "ens_set") => mode' /\ th'[t] = Done("engaged")
                /\ (th[t].res # "raised" /\ th'[t].res = "raised") =>
                       mode' = mode
                /\ Steps(t, "ens_fail") =>
                       /\ mode' = mode
                       /\ wire' = wire
                       /\ th'[t] = Done("unable")
                       /\ log' = Append(log, LEngageFailed)]_vars

\* One ensureCommandMode failed on its send and left the flag false; the next
\* one got its datagram out and set it.
C7_Witness ==
    /\ impl = "web"
    /\ mode
    /\ \E t, u \in Handlers : th[t].res = "unable" /\ th[u].res = "engaged"
    /\ Count(log, LSendFailed) = 1

\* C8: the flag goes from true to false only in reset_drone_session's
\* set_command_mode(False); stopping the channel, stopping video, a failed
\* send or a received datagram leave it as it is.
C8_OnlyResetClearsMode ==
    [][(mode /\ ~mode') =>
          \E t \in Threads :
              /\ Steps(t, "reset_mode")
              /\ th[t].op = "wifi_home"
              /\ th'[t].pc = "home_wifi"]_vars

\* A reset has stopped video and closed the channel, and the flag is still
\* true: only its last statement clears it.
C8_Witness ==
    /\ mode
    /\ sock = None
    /\ ~running
    /\ \E t \in Handlers : At(t, "reset_mode")

\* C9: send_command returns true exactly when the datagram was handed to the
\* transport, and then appends exactly one ">>> <cmd>" line; a failed hand-off
\* returns false and appends a "Send failed" line and no ">>>" line.
C9_SendResultAndLog ==
    /\ [](\A c \in FlightCommands \cup {"command", "streamon", "streamoff"} :
            Count(log, LSent(c)) + Cardinality({t \in Threads :
                    At(t, "send_log") /\ th[t].cmd = c})
                = Cardinality({i \in DOMAIN wire : wire[i].cmd = c}))
    /\ [][\A t \in Threads :
            /\ Steps(t, "sendto") =>
                   /\ log' = log
                   /\ \/ /\ wire' = Append(wire, [cmd |-> th[t].cmd, mode |-> mode])
                         /\ th'[t].pc = "send_log"
                      \/ /\ wire' = wire
                         /\ \/ th'[t].pc = "send_fail"
                            \/ sock = None /\ th'[t] = AfterSend(th[t], "raised")
            /\ Steps(t, "send_log") =>
                   /\ log' = Append(log, LSent(th[t].cmd))
                   /\ wire' = wire
                   /\ th'[t] = AfterSend(th[t], "true")
            /\ Steps(t, "send_fail") =>
                   /\ log' = Append(log, LSendFailed)
                   /\ wire' = wire
                   /\ th'[t] = AfterSend(th[t], "false")]_vars

\* One send went out and was logged, the next one failed and was logged as
\* failed.
C9_Witness ==
    /\ \E t, u \in Threads : th[t].res = "engaged" /\ th[u].res = "sendfail"
    /\ Count(log, LSent("command")) = 1
    /\ Count(log, LSendFailed) = 1
    /\ Len(wire) = 1

\* C10: send_command starts the channel lazily.  In the web program the
\* start() inside send_command, when it returns, leaves the channel Listening,
\* whether it found it never started, stopped or started; the datagram then
\* handed to the transport makes the call return true.
C10_LazyStart ==
    [][impl = "web" =>
        \A t \in Threads :
            /\ (th[t].pc \in {"start", "start_app"} /\ th'[t].pc = "sendto") =>
                   Listening'
            /\ (Steps(t, "start") /\ sock = None) =>
                   \/ /\ th'[t].pc = "start_log"
                      /\ sock' \notin bound
                      /\ Listening'
                      /\ rpc[sock'] = "off"
                   \/ /\ th'[t] = AfterSend(th[t], "raised")
                      /\ UNCHANGED <<chanVars, rcvVars, log>>
            /\ (Steps(t, "send_log") /\ th[t].op = "command") =>
                   th'[t].res \in {"sent"} \/ th'[t].pc = "ens_set"]_vars

\* The first request of a fresh web program, a "command", started the channel
\* on its way and went through.
C10_Witness ==
    /\ impl = "web"
    /\ nev = 1
    /\ nsock = 1
    /\ Listening
    /\ log = <<LReady, LSent("command"), LEngaged>>
    /\ \E t \in Handlers : th[t].res = "engaged"

\* The channel is Closed: no socket handle, running false.
Closed == sock = None /\ ~running

C12_VideoNeedsMode ==
    [][\A t \in Threads :
        (Steps(t, "vs") /\ cv2 /\ ~mode) =>
            /\ th'[t] = Done("needmode")
            /\ UNCHANGED <<chanVars, rcvVars, mode, vidVars, wire>>
            /\ log' = Append(log, LVideoBeforeMode)]_vars

\* A fresh program refused a videoStart(): nothing was opened, sent or spawned.
C12_Witness ==
    /\ \E t \in Handlers : th[t].res = "needmode"
    /\ cv2 /\ ~mode
    /\ sock = None /\ nsock = 0
    /\ wire = <<>>
    /\ ncap = 0 /\ ~vrunning /\ ~streamEnabled
    /\ log = <<LVideoBeforeMode>>

\* What VideoStreamer.start does when it is called in this state and no other
\* thread acts during the call (lines 160-180): "streamon" when it sends the
\* streamon command before anything else, or else its answer.
VideoStartFrom ==
    IF ~cv2 THEN "nocv2"
    ELSE IF ~mode THEN "needmode"
    ELSE IF ~streamEnabled THEN "streamon"
    ELSE IF vrunning THEN "already_running"
    ELSE "starting"

\* No request is in flight and no capture thread is still opening its source.
Quiet ==
    /\ \A t \in Threads : th[t].pc = "idle"
    /\ \A j \in CapIds :
        cpc[j] \in {"off", "loop", "read", "write", "done", "released"}

\* C13: videoStart() called while the capture loop is running (in command
\* mode, OpenCV present) answers "Video stream already running." and sends no
\* further streamon: in every quiet state with running set, that is what the
\* call does.
C13_StartWhileRunning ==
    (Quiet /\ vrunning /\ cv2 /\ mode) => VideoStartFrom = "already_running"

\* C14: a capture thread whose source fails to open logs "Unable to open the
\* video stream.", sets running and then stream_enabled to False and ends,
\* and none of these steps touches the frame cache or an encode buffer.  A
\* videoStart() that then finds stream_enabled False goes to send streamon
\* before anything else, and one that finds running False spawns a new
\* capture thread and answers "Video stream starting.".  So in every quiet
\* state whose last log line is the failure both flags are False and the
\* next videoStart() (command mode, OpenCV present) begins with streamon.
C14_OpenFailureRetries ==
    /\ []((Quiet /\ cv2 /\ mode /\ log # <<>> /\ log[Len(log)] = LUnableOpen)
            => (~vrunning /\ ~streamEnabled /\ VideoStartFrom = "streamon"))
    /\ [][/\ \A j \in CapIds :
              /\ (cpc[j] = "opening" /\ cpc'[j] # "opening") =>
                     /\ cpc'[j] \in {"loop", "failed"}
                     /\ cpc'[j] = "failed" => log' = Append(log, LUnableOpen)
                     /\ UNCHANGED <<vrunning, streamEnabled, latestFrame,
                                    nframes, cbuf>>
              /\ (cpc[j] = "failed" /\ cpc'[j] # "failed") =>
                     /\ ~vrunning'
                     /\ cpc'[j] = "failed2"
                     /\ UNCHANGED <<latestFrame, nframes, cbuf>>
              /\ (cpc[j] = "failed2" /\ cpc'[j] # "failed2") =>
                     /\ ~streamEnabled'
                     /\ cpc'[j] = "done"
                     /\ UNCHANGED <<latestFrame, nframes, cbuf>>
          /\ \A t \in Threads :
              /\ (Steps(t, "vs_en") /\ ~streamEnabled) =>
                     th'[t].pc = "start" /\ th'[t].cmd = "streamon"
              /\ (Steps(t, "vs_run") /\ ~vrunning) => th'[t].pc = "vs_spawn"
              /\ Steps(t, "vs_spawn") =>
                     /\ vrunning'
                     /\ ncap' = ncap + 1
                     /\ cpc'[ncap + 1] = "open"
                     /\ th'[t] = Done("starting")]_vars

\* The first capture thread failed to open its source and ended; the next
\* videoStart() sent streamon a second time and spawned a second thread; the
\* frame cache is still empty.
C14_Witness ==
    /\ cpc[1] = "done"
    /\ Count(log, LUnableOpen) = 1
    /\ Count(wire, [cmd |-> "streamon", mode |-> TRUE]) = 2
    /\ ncap = 2 /\ cpc[2] # "off"
    /\ \E t \in Handlers : th[t].res = "starting"
    /\ latestFrame = None

\* C15: VideoStreamer.stop() sets running to False; it then calls
\* send_command("streamoff") exactly when it reads stream_enabled True, and
\* whichever way that call ends stream_enabled is False after it.  When it
\* reads stream_enabled False it goes straight on to what follows stop(): no
\* datagram, no socket opened, no exception.
C15_StopSendsStreamoffIfEnabled ==
    [][\A t \in Threads :
        /\ Steps(t, "vstop") =>
               /\ ~vrunning'
               /\ th'[t].pc = "vstop_en"
               /\ UNCHANGED <<chanVars, streamEnabled, wire, log>>
        /\ (Steps(t, "vstop_en") /\ streamEnabled) =>
               /\ th'[t].pc = "start" /\ th'[t].cmd = "streamoff"
               /\ UNCHANGED <<chanVars, vidVars, wire, log>>
        /\ (Steps(t, "vstop_en") /\ ~streamEnabled) =>
               /\ th'[t].pc = "stop"
               /\ UNCHANGED <<chanVars, vidVars, wire, log>>
        /\ (th[t].pc \in {"vstop_fin", "vstop_exc"} /\ th'[t] # th[t]) =>
               /\ ~streamEnabled'
               /\ UNCHANGED <<chanVars, wire>>
        /\ (th[t].op = "wifi_home" /\ Steps(t, "sendto") /\ wire' # wire) =>
               wire' = Append(wire, [cmd |-> "streamoff", mode |-> mode])]_vars

\* A session reset found the stream enabled: streamoff went out once,
\* stream_enabled and running are False and the reset was answered.
C15_Witness ==
    /\ \E t \in Handlers : th[t].res = "reset"
    /\ Count(wire, [cmd |-> "streamoff", mode |-> TRUE]) = 1
    /\ ~streamEnabled /\ ~vrunning
    /\ Closed

\* C16: frame freshness.  Whenever no capture thread is between an encode and
\* the write of its buffer, get_frame() returns absent if no encode has
\* succeeded yet and the bytes of the most recent successful encode
\* otherwise.
C16_FrameFreshness ==
    (\A j \in CapIds : cbuf[j] = None) =>
        get_frame = (IF nframes = 0 THEN None ELSE nframes)

\* C17: VideoStreamer.stop() and the session reset around it leave the frame
\* cache as it is: no step of a reset changes what get_frame() returns, and
\* what get_frame() returns changes only when a capture loop stores the
\* buffer of an encoded frame, so it never goes back to absent.
C17_StopKeepsFrame ==
    [][/\ (\E t \in Threads : th[t].op = "wifi_home" /\ th'[t] # th[t]) =>
              get_frame' = get_frame
       /\ get_frame' # get_frame =>
              \E j \in CapIds :
                  /\ cpc[j] = "write" /\ cpc'[j] = "loop"
                  /\ get_frame' = cbuf[j]
                  /\ get_frame' # None]_vars

\* A session reset has stopped the video, closed the channel and cleared the
\* mode; the frame stored before it is still what get_frame() returns.
C17_Witness ==
    /\ \E t \in Handlers : th[t].res = "reset"
    /\ ~vrunning /\ ~streamEnabled /\ ~mode
    /\ Closed
    /\ nframes = 1
    /\ get_frame = 1

\* C18: log polling.  A poller that starts with from = 0 and passes each
\* answer's next index to its next call has, after every call and whatever
\* was appended between and during the calls, received exactly the first
\* nextIndex lines of the log, each once and in append order; every answer
\* starts where the last one ended.
C18_LogPolling ==
    /\ nextIndex <= Len(log)
    /\ delivered = SubSeq(log, 1, nextIndex)

\* The poller has received lines appended after the first three, the log has
\* grown again since its last poll while a request is in progress, and
\* nothing is doubled or missing.
C18_Witness ==
    /\ nextIndex > 3
    /\ Len(log) > nextIndex
    /\ delivered = SubSeq(log, 1, nextIndex)
    /\ \E t \in Handlers : th[t].pc # "idle"

\* C31: whatever integer the first poll passes as "from", the next index it
\* is answered with lies between 0 and the length of the log, and what the
\* poller has received, continuing from each answer's next index, is one
\* unbroken run of log lines that ends at its next index: no line twice, no
\* line after the first received one left out.
C31_NextIndexWithinLog ==
    /\ 0 <= nextIndex
    /\ nextIndex <= Len(log)
    /\ \E k \in 0..nextIndex : delivered = SubSeq(log, k + 1, nextIndex)

\* C32: no exception leaves a DroneClient method; a method called in debug
\* mode, and any method but connect() called after a connect() that failed,
\* asks nothing of the Tello object or the frame reader; frame_reader is
\* present only if drone is, at every statement; and once a failed connect()
\* has returned both are absent.
C32_DroneClientResilient ==
    /\ ~raised
    /\ debug => dcalls = <<>>
    /\ (status = SUnavailable /\ dop # "connect") => dcalls = <<>>
    /\ frame_reader # None => drone # None
    /\ (status = SUnavailable /\ dpc = "idle") =>
           (drone = None /\ frame_reader = None)

\* A connect() went through (the battery was read), a later connect() failed,
\* and the shutdown() called after it has returned without a call.
C32_Witness ==
    /\ ~debug
    /\ battery # None
    /\ status = SUnavailable
    /\ dop = "shutdown"
    /\ dpc = "idle"
    /\ dcalls = <<>>
    /\ drone = None
    /\ frame_reader = None

\* The commands handed to the transport, in order.
Transmitted == [i \in 1..Len(wire) |-> wire[i].cmd]

\* The texts of the ">>> text" lines of the log, in order.
LoggedSent ==
    LET sent == SelectSeq(log, LAMBDA l : l[1] = ">>>")
    IN  [i \in 1..Len(sent) |-> sent[i][2]]

\* Thread t is the only caller there has been.
SingleCaller(t) == \A u \in Threads \ {t} : th[u] = Idle

\* C19: with a single caller every send_command hands its datagram to the
\* transport after those of the calls before it and logs its ">>> text" line
\* after theirs: the ">>>" lines of the log are the transmitted commands in
\* the order of transmission, the last of them missing exactly while the
\* caller is between sendto and its log line.
C19_SingleCallerOrder ==
    /\ [](\A t \in Threads :
            SingleCaller(t) =>
                /\ Len(LoggedSent) <= Len(Transmitted)
                /\ LoggedSent = SubSeq(Transmitted, 1, Len(LoggedSent))
                /\ Len(Transmitted) - Len(LoggedSent)
                       = (IF th[t].pc = "send_log" THEN 1 ELSE 0))
    /\ [][\A t \in Threads :
            (SingleCaller(t) /\ Steps(t, "sendto") /\ wire' # wire) =>
                /\ Transmitted' = Append(Transmitted, th[t].cmd)
                /\ th'[t].pc = "send_log"]_vars

\* One caller engaged command mode and then sent takeoff: both went out in
\* that order, ">>> command" is logged before ">>> takeoff" and the second
\* call returned true.
C19_Witness ==
    /\ SingleCaller("h1")
    /\ th["h1"] = Done("sent")
    /\ Transmitted = <<"command", "takeoff">>
    /\ log = <<LReady, LSent("command"), LEngaged, LSent("takeoff")>>

\* The locks thread t holds between two of its steps: self.lock of the
\* channel from the step of start() or stop() that takes it to the one that
\* gives it back, and log_lock while it is inside the append_log that start()
\* and stop() call at their end.  The mode lock (AppState), frame_lock and
\* the log_lock of every other append_log are taken and given back inside one
\* step, with no other lock taken in between.
LocksHeld(t) ==
    (IF chanLock = t THEN {"channel"} ELSE {})
        \cup (IF th[t].pc \in {"start_app", "stop_app"} THEN {"log"} ELSE {})

\* C20: no operation holds two locks at the same time: in every state each
\* thread holds at most one of the channel lock, the mode lock, the frame
\* lock and the log lock.
C20_OneLockAtATime ==
    \A t \in Threads : Cardinality(LocksHeld(t)) <= 1

\* C21: when OpenCV is missing videoStart() is refused without side effects:
\* the step answers and changes nothing else; no datagram, no thread, no
\* flag, no log line.
C21_NoCv2NoSideEffects ==
    [][\A t \in Threads :
        (Steps(t, "vs") /\ ~cv2) =>
            /\ th'[t] = Done("nocv2")
            /\ UNCHANGED <<chanVars, rcvVars, mode, vidVars, wire, log>>]_vars

\* C22: cooperative cancellation of the receiver.  Once stop() has left the
\* channel Closed, every receiver thread ends unless a later start() takes
\* the channel out of Closed; a receiver thread that has ended stays ended,
\* and a "<<< text" line is appended only by a receiver thread that is alive
\* and has a datagram.
C22_ReceiverExits ==
    /\ Closed ~> (LiveReceivers = {} \/ ~Closed)
    /\ [][/\ \A i \in SockIds : rpc[i] = "done" => rpc'[i] = "done"
          /\ (log' # log /\ log'[Len(log')][1] = "<<<") =>
                 \E i \in SockIds :
                     /\ rpc[i] = "rlog" /\ rpc'[i] = "loop"
                     /\ log' = Append(log, LRecv(rdg[i]))]_vars

\* A session reset has returned: stop() closed the channel that was
\* Listening, and its receiver thread has ended since.
C22_Witness ==
    /\ \E t \in Handlers : th[t].res = "reset"
    /\ Closed
    /\ Count(log, LClosed) = 1
    /\ nsock = 1
    /\ rpc[1] = "done"
    /\ LiveReceivers = {}

\* The capture threads that hold an open capture handle.
HandleHolders == {j \in CapIds : cpc[j] \in {"loop", "read", "write"}}

\* C23: cooperative cancellation of the capture loop.  Once running is
\* cleared, every capture thread that holds a handle ends unless a later
\* videoStart() sets running again.  A thread that holds a handle ends only
\* at its loop test, with running cleared, through cap.release(); it is
\* released once, since a thread that has ended stays ended.
C23_CaptureExits ==
    /\ ~vrunning ~> (HandleHolders = {} \/ vrunning)
    /\ [][\A j \in CapIds :
            /\ (j \in HandleHolders /\ j \notin HandleHolders') =>
                   cpc[j] = "loop" /\ cpc'[j] = "released" /\ ~vrunning
            /\ (cpc[j] # "released" /\ cpc'[j] = "released") =>
                   j \in HandleHolders
            /\ cpc[j] \in {"done", "released"} => cpc'[j] = cpc[j]]_vars

\* A session reset stopped the video while the capture loop was running: the
\* loop has ended and released its handle, and running is still cleared.
C23_Witness ==
    /\ \E t \in Handlers : th[t].res = "reset"
    /\ ~vrunning
    /\ ncap = 1
    /\ cpc[1] = "released"
    /\ HandleHolders = {}

\* The texts of the "<<< text" lines of the log, in order.
LoggedRecv ==
    LET recv == SelectSeq(log, LAMBDA l : l[1] = "<<<")
    IN  [i \in 1..Len(recv) |-> recv[i][2]]

\* C24: every datagram received produces exactly one "<<< text" line and the
\* lines are in the order of arrival: the "<<<" lines of the log are the
\* datagrams that arrived, in that order, short of those a receiver thread has
\* read and not yet logged; nothing else (a timeout, a transport error) adds
\* a "<<<" line.
C24_ReceivedLoggedInOrder ==
    /\ Len(LoggedRecv) <= Len(arrived)
    /\ LoggedRecv = SubSeq(arrived, 1, Len(LoggedRecv))
    /\ Len(arrived) - Len(LoggedRecv)
           = Cardinality({i \in SockIds : rpc[i] = "rlog"})

\* C25: whenever the socket handle is present and the running flag is true, a
\* receiver thread is alive.
C25_ListeningHasReceiver ==
    (sock # None /\ running) => LiveReceivers # {}

\* C26: in every state in which no thread is inside start() or stop(), the
\* socket handle is present exactly when the running flag is true.
C26_SockIffRunning ==
    chanLock = "free" => (sock # None <=> running)

\* C27: session reset postcondition.  At the step in which
\* reset_drone_session() returns (its last statement, set_command_mode(False))
\* the command-mode flag, stream_enabled and running of the video are false
\* and the channel is Closed, whatever other requests are in progress.
C27_ResetPostcondition ==
    [][\A t \in Threads :
        Steps(t, "reset_mode") =>
            /\ ~mode'
            /\ ~streamEnabled' /\ ~vrunning'
            /\ Closed']_vars

\* C28: whenever the running flag of the video is true, stream_enabled is
\* true.
C28_RunningImpliesEnabled == vrunning => streamEnabled

\* C29: within a session of the web program the "command" datagram is
\* transmitted at most once, overlapping ensure_command_mode() calls
\* included: as long as no stop() has ended a session, at most one of the
\* datagrams handed to the transport is "command".
C29_CommandSentOnce ==
    (impl = "web" /\ Count(log, LClosed) = 0) =>
        Cardinality({i \in DOMAIN wire : wire[i].cmd = "command"}) <= 1

\* C30: the system is deadlock-free.  A thread that waits for the channel
\* lock holds no lock, and the log lock is taken by a thread that holds
\* nothing or the channel lock and that waits for nothing while it has it: the
\* only nesting is channel lock, then log lock.  Under fair scheduling the
\* requests that are taken up all come to their end, again and again: every
\* start(), stop(), send_command and append_log in them gets its lock and
\* returns, and every lock is free for get_logs, get_frame and
\* in_command_mode.
C30_DeadlockFree ==
    /\ [](\A t \in Threads :
            /\ (th[t].pc \in {"start", "stop"}) => LocksHeld(t) = {}
            /\ "log" \in LocksHeld(t) =>
                   /\ LocksHeld(t) = {"channel", "log"}
                   /\ \A u \in Threads \ {t} : LocksHeld(u) = {})
    /\ []<>(chanLock = "free" /\ \A t \in Threads : th[t].pc = "idle")

\* Contention: one thread is inside start() or stop() with both locks while
\* another waits for the channel lock.
C30_Witness ==
    \E t, u \in Threads :
        /\ t # u
        /\ LocksHeld(t) = {"channel", "log"}
        /\ th[u].pc \in {"start", "stop"}
====
